---- MODULE Spec2Model ----
(***************************************************************************)
(* Model of generate-index.py: the scan / validate / clean / index         *)
(* pipeline of the vFlow workflow repository.                              *)
(*                                                                         *)
(* Strings that the code inspects character by character (file names and   *)
(* identifiers) are sequences of one-character strings.  A parsed JSON     *)
(* value is a record [t, has, v]:                                          *)
(*   t = "dict"      a JSON object, v its key -> value mapping             *)
(*   t = "seq"       a JSON string or array; has = the keys for which      *)
(*                   Python's `key in value` is true                       *)
(*   t = "scalar"    a number, boolean or null (`in` raises TypeError)     *)
(*   t = "malformed" file content that json.load rejects                   *)
(* The character "?" stands for a lone surrogate (the JSON escape \ud800): *)
(* json.load accepts it, the utf-8 encoder of a file opened for writing    *)
(* and of sys.stdout rejects it.                                           *)
(***************************************************************************)
EXTENDS Integers, Sequences, FiniteSets, TLC

\* ------------------------------------------------------------------ bounds
MaxRuns == 2

\* ------------------------------------------------------------- characters
EXT == <<".", "j", "s", "o", "n">>
SURROGATE == "?"
UNENC == "\\ud800"

\* code points, the order Python compares strings by
Code(c) ==
  CASE c = "." -> 46
    [] c = "a" -> 97
    [] c = "b" -> 98
    [] c = "j" -> 106
    [] c = "n" -> 110
    [] c = "o" -> 111
    [] c = "s" -> 115
    [] OTHER   -> 55296

Range(s) == {s[i] : i \in 1..Len(s)}

EmptyFn == [k \in {} |-> FALSE]

\* str.endswith
EndsWith(s, suffix) ==
  /\ Len(s) >= Len(suffix)
  /\ SubSeq(s, Len(s) - Len(suffix) + 1, Len(s)) = suffix

\* str.replace(old, ''): every non-overlapping occurrence, left to right
RECURSIVE RemoveAll(_, _)
RemoveAll(s, old) ==
  IF Len(s) < Len(old) THEN s
  ELSE IF SubSeq(s, 1, Len(old)) = old
       THEN RemoveAll(SubSeq(s, Len(old) + 1, Len(s)), old)
       ELSE <<Head(s)>> \o RemoveAll(Tail(s), old)

normalize_id(filename) ==
  IF EndsWith(filename, EXT) THEN RemoveAll(filename, EXT) ELSE filename

\* the file name with only its final extension removed
StripExt(filename) ==
  IF EndsWith(filename, EXT)
  THEN SubSeq(filename, 1, Len(filename) - Len(EXT))
  ELSE filename

\* Python's < on str
RECURSIVE StrLess(_, _)
StrLess(x, y) ==
  IF y = <<>> THEN FALSE
  ELSE IF x = <<>> THEN TRUE
  ELSE IF Head(x) = Head(y) THEN StrLess(Tail(x), Tail(y))
  ELSE Code(Head(x)) < Code(Head(y))

\* ------------------------------------------------------------ JSON values
Dict(f)  == [t |-> "dict", has |-> {}, v |-> f]
SeqVal(h) == [t |-> "seq", has |-> h, v |-> EmptyFn]
Scalar   == [t |-> "scalar", has |-> {}, v |-> EmptyFn]
Malformed == [t |-> "malformed", has |-> {}, v |-> EmptyFn]

\* `key in x` raises TypeError
InRaises(x) == x.t = "scalar"
\* value of `key in x` when it does not raise
PyIn(key, x) ==
  IF x.t = "dict" THEN key \in DOMAIN x.v ELSE key \in x.has
\* x[key] with a str key raises TypeError
SubscriptRaises(x) == x.t # "dict"

FLAGS == {"isEnabled", "isFavorite", "wasEnabledBeforePermissionsLost"}
required_meta_fields ==
  {"id", "name", "description", "author", "version", "vFlowLevel"}
\* the string-valued fields of _meta
TextFields == {"name", "description", "author", "version", "homepage", "updated_at"}

\* validate_workflow: [raised, valid, kind, missing, expected, actual]
VResult(raised, valid, kind, missing, expected, actual) ==
  [raised |-> raised, valid |-> valid, kind |-> kind, missing |-> missing,
   expected |-> expected, actual |-> actual]

validate_workflow(data, filename) ==
  IF InRaises(data) THEN VResult(TRUE, FALSE, "TypeError", {}, <<>>, <<>>)
  ELSE IF ~PyIn("_meta", data)
       THEN VResult(FALSE, FALSE, "no_meta", {}, <<>>, <<>>)
  ELSE IF SubscriptRaises(data)
       THEN VResult(TRUE, FALSE, "TypeError", {}, <<>>, <<>>)
  ELSE LET meta == data.v["_meta"] IN
    IF InRaises(meta) THEN VResult(TRUE, FALSE, "TypeError", {}, <<>>, <<>>)
    ELSE LET missing_fields == {f \in required_meta_fields : ~PyIn(f, meta)} IN
      IF missing_fields # {}
      THEN VResult(FALSE, FALSE, "missing_fields", missing_fields, <<>>, <<>>)
      ELSE IF SubscriptRaises(meta)
           THEN VResult(TRUE, FALSE, "TypeError", {}, <<>>, <<>>)
      ELSE LET expected_id == normalize_id(filename)
               meta_id == meta.v["id"]
           IN IF meta_id # expected_id
              THEN VResult(FALSE, FALSE, "id_mismatch", {}, expected_id, meta_id)
              ELSE VResult(FALSE, TRUE, "ok", {}, <<>>, <<>>)

\* clean_workflow_for_repo without line 62
clean_workflow_keeps_flag(data) ==
  Dict([k \in (DOMAIN data.v) \cup {"isEnabled", "isFavorite"} |->
          IF k \in {"isEnabled", "isFavorite"} THEN FALSE ELSE data.v[k]])

clean_workflow_for_repo(data) ==
  Dict([k \in (DOMAIN data.v) \cup FLAGS |->
          IF k \in FLAGS THEN FALSE ELSE data.v[k]])


\* ------------------------------------------------- encodability (utf-8)
\* json.dump(..., ensure_ascii=False) into a file opened with encoding='utf-8'
\* raises UnicodeEncodeError on a lone surrogate
EncodableMeta(meta) ==
  meta.t = "dict" =>
    \A k \in DOMAIN meta.v :
      /\ k \in TextFields => meta.v[k] # UNENC
      /\ k = "id" => SURROGATE \notin Range(meta.v[k])

EncodableDoc(data) ==
  /\ "steps" \in DOMAIN data.v => data.v["steps"] # UNENC
  /\ "_meta" \in DOMAIN data.v => EncodableMeta(data.v["_meta"])

EncodableItem(item) ==
  /\ SURROGATE \notin Range(item.id)
  /\ \A s \in {item.name, item.description, item.author, item.version,
               item.homepage, item.updated_at} : s # UNENC

\* print() of an error line on a utf-8 stdout
PrintableError(e) == SURROGATE \notin Range(e.actual)

\* ------------------------------------------------------- catalog entries
URL_BASE == "https://raw.githubusercontent.com/ChaoMixian/vFlow-Repos/main/workflows/"
DIR == "workflows"
INDEX == <<"i", "n", "d", "e", "x">> \o EXT

\* dict.get(key, default)
Get(d, key, default) == IF key \in DOMAIN d.v THEN d.v[key] ELSE default

\* lines 101-122; "unnamed" and "unknown" stand for the two Chinese literals
build_item(data, filename) ==
  LET meta == Get(data, "_meta", Dict(EmptyFn)) IN
  [id           |-> Get(meta, "id", normalize_id(filename)),
   name         |-> Get(meta, "name", "unnamed"),
   description  |-> Get(meta, "description", ""),
   author       |-> Get(meta, "author", "unknown"),
   version      |-> Get(meta, "version", "1.0.0"),
   vFlowLevel   |-> Get(meta, "vFlowLevel", 1),
   homepage     |-> Get(meta, "homepage", ""),
   tags         |-> Get(meta, "tags", <<>>),
   updated_at   |-> Get(meta, "updated_at", ""),
   filename     |-> filename,
   download_url |-> <<URL_BASE>> \o filename,
   local_path   |-> <<DIR, "/">> \o filename]

\* list.sort(key=lambda x: x['id']): stable, ascending
RECURSIVE InsertById(_, _)
InsertById(s, x) ==
  IF s = <<>> THEN <<x>>
  ELSE IF StrLess(x.id, s[Len(s)].id)
       THEN Append(InsertById(SubSeq(s, 1, Len(s) - 1), x), s[Len(s)])
       ELSE Append(s, x)

RECURSIVE SortById(_)
SortById(s) ==
  IF s = <<>> THEN <<>>
  ELSE InsertById(SortById(SubSeq(s, 1, Len(s) - 1)), s[Len(s)])

\* generate_index without line 160
sort_items_skipped(s) == s

\* line 160
sort_items(s) == SortById(s)

\* ------------------------------------------- one iteration of the scan loop
\* st = [items, errors, skipped_files, ok_lines]; file = [perm, doc]
\* result = st's fields after the iteration, the file as left on disk, and
\* whether an exception leaves the loop
Err(filename, kind, missing, expected, actual) ==
  [file |-> filename, kind |-> kind, missing |-> missing,
   expected |-> expected, actual |-> actual]

BodyResult(its, errs, skipped, oks, file, propagates) ==
  [items |-> its, errors |-> errs, skipped_files |-> skipped,
   ok_lines |-> oks, file |-> file, propagates |-> propagates]

\* lines 95-98 with the write-back of lines 127-128 done before the check
on_invalid_rewrites(st, filename, file, r) ==
  [items |-> st.items,
   errors |-> Append(st.errors, [file |-> filename, kind |-> r.kind,
                                 missing |-> r.missing, expected |-> r.expected,
                                 actual |-> r.actual]),
   skipped_files |-> Append(st.skipped_files, filename),
   ok_lines |-> st.ok_lines,
   file |-> [file EXCEPT !.doc = clean_workflow_for_repo(file.doc)],
   propagates |-> FALSE]

\* lines 95-98
on_invalid(st, filename, file, r) ==
  BodyResult(st.items,
             Append(st.errors, Err(filename, r.kind, r.missing, r.expected, r.actual)),
             Append(st.skipped_files, filename),
             st.ok_lines, file, FALSE)

\* lines 132-134
on_json_error(st, filename, file) ==
  BodyResult(st.items,
             Append(st.errors, Err(filename, "JSONDecodeError", {}, <<>>, <<>>)),
             Append(st.skipped_files, filename),
             st.ok_lines, file, FALSE)

\* lines 135-137 with the exception raised again
on_exception_reraises(st, filename, file, kind) ==
  [items |-> st.items, errors |-> st.errors,
   skipped_files |-> st.skipped_files, ok_lines |-> st.ok_lines,
   file |-> file, propagates |-> TRUE]

\* lines 135-137
on_exception(st, filename, file, kind) ==
  BodyResult(st.items,
             Append(st.errors, Err(filename, kind, {}, <<>>, <<>>)),
             Append(st.skipped_files, filename),
             st.ok_lines, file, FALSE)

\* lines 127-128: open(filepath, 'w') truncates, json.dump writes in chunks
write_back(file, cleaned) ==
  IF file.perm # "rw"
  THEN [raised |-> TRUE, kind |-> "OSError", file |-> file]
  ELSE IF ~EncodableDoc(cleaned)
       THEN [raised |-> TRUE, kind |-> "UnicodeEncodeError",
             file |-> [file EXCEPT !.doc = Malformed]]
       ELSE [raised |-> FALSE, kind |-> "",
             file |-> [file EXCEPT !.doc = cleaned]]

\* lines 100-130
on_valid(st, filename, file) ==
  LET cleaned_workflow == clean_workflow_for_repo(file.doc)
      item == build_item(file.doc, filename)
      st1 == [st EXCEPT !.items = Append(st.items, item)]
      w == write_back(file, cleaned_workflow)
  IN IF w.raised
     THEN on_exception(st1, filename, w.file, w.kind)
     ELSE BodyResult(st1.items, st1.errors, st1.skipped_files,
                     Append(st1.ok_lines, filename), w.file, FALSE)

\* lines 88-137
loop_body(st, filename, file) ==
  IF file.perm = "none" THEN on_exception(st, filename, file, "OSError")
  ELSE IF file.doc.t = "malformed" THEN on_json_error(st, filename, file)
  ELSE LET r == validate_workflow(file.doc, filename) IN
    IF r.raised THEN on_exception(st, filename, file, r.kind)
    ELSE IF ~r.valid THEN on_invalid(st, filename, file, r)
    ELSE on_valid(st, filename, file)


\* ------------------------------------------------------ input documents
NameA  == <<"a">> \o EXT
NameB  == <<"b">> \o EXT
NameAA == <<"a">> \o EXT \o EXT
WorkflowNames == {NameA, NameB, NameAA}

Meta(id, name, optional) ==
  Dict([k \in required_meta_fields
            \cup (IF optional THEN {"homepage", "tags", "updated_at"} ELSE {}) |->
          CASE k = "id" -> id
            [] k = "name" -> name
            [] k = "description" -> "d"
            [] k = "author" -> "au"
            [] k = "version" -> "1.2.0"
            [] k = "vFlowLevel" -> 2
            [] k = "homepage" -> "h"
            [] k = "tags" -> <<"t">>
            [] OTHER -> "2024"])

Workflow(meta, flags, steps) ==
  Dict([k \in {"_meta", "steps"} \cup DOMAIN flags |->
          IF k = "_meta" THEN meta
          ELSE IF k = "steps" THEN steps
          ELSE flags[k]])

NoFlags == [k \in {} |-> FALSE]
EnabledOnly == [k \in {"isEnabled"} |-> TRUE]
AllFalse == [k \in FLAGS |-> FALSE]

\* an identifier that differs from the one the file name gives
OtherId(filename) ==
  IF StripExt(filename) # normalize_id(filename)
  THEN StripExt(filename)
  ELSE normalize_id(filename) \o <<"b">>

InvalidDocs(filename) ==
  LET e == normalize_id(filename) IN
  { Malformed,
    Scalar,
    SeqVal({}),
    SeqVal({"_meta"}),
    Dict([k \in {"isEnabled", "steps"} |-> IF k = "steps" THEN "s" ELSE TRUE]),
    Workflow(Scalar, EnabledOnly, "s"),
    Workflow(SeqVal(required_meta_fields), EnabledOnly, "s"),
    Workflow(Dict([k \in {"id", "name"} |-> IF k = "id" THEN e ELSE "n"]),
             EnabledOnly, "s"),
    Workflow(Meta(OtherId(filename), "n", FALSE), EnabledOnly, "s"),
    Workflow(Meta(<<SURROGATE>>, "n", FALSE), EnabledOnly, "s") }

ValidDocs(filename) ==
  LET e == normalize_id(filename) IN
  { Workflow(Meta(e, "n", FALSE), EnabledOnly, "s"),
    Workflow(Meta(e, "n", TRUE), AllFalse, "s"),
    Workflow(Meta(e, "n", FALSE), AllFalse, UNENC),
    Workflow(Meta(e, UNENC, FALSE), NoFlags, "s") }

\* perm: "rw", "ro" (open for writing fails), "none" (open for reading fails)
AllFiles(filename) ==
  {[perm |-> "rw", doc |-> d] : d \in InvalidDocs(filename) \cup ValidDocs(filename)}
  \cup {[perm |-> "none", doc |-> Workflow(Meta(normalize_id(filename), "n", FALSE), EnabledOnly, "s")],
        [perm |-> "ro", doc |-> Workflow(Meta(normalize_id(filename), "n", FALSE), EnabledOnly, "s")],
        [perm |-> "ro", doc |-> Workflow(Meta(normalize_id(filename), UNENC, FALSE), NoFlags, "s")]}

CommonFiles(filename) ==
  {[perm |-> "rw", doc |-> d] :
     d \in { Malformed,
             Workflow(Meta(OtherId(filename), "n", FALSE), EnabledOnly, "s"),
             Workflow(Meta(normalize_id(filename), "n", FALSE), EnabledOnly, "s"),
             Workflow(Meta(normalize_id(filename), "n", TRUE), AllFalse, "s") }}

\* the contents a file of this name may have: every kind of content for
\* a.json, the common ones for the other names
FilesFor(filename) ==
  IF filename = NameA THEN AllFiles(filename) ELSE CommonFiles(filename)

Catalog(stamp, entries) ==
  Dict([k \in {"version", "last_updated", "total_count", "workflows"} |->
          CASE k = "version" -> "1.0"
            [] k = "last_updated" -> stamp
            [] k = "total_count" -> Len(entries)
            [] OTHER -> entries])

NoFiles == [n \in {} |-> [perm |-> "rw", doc |-> Malformed]]

Absent == [perm |-> "absent", doc |-> Malformed]

\* ------------------------------------------------------------------ state
VARIABLES
  dirExists,      \* Path(directory).exists()
  disk,           \* file name -> [perm, doc], the directory's content
  disk0,          \* disk when the current run started
  prevStart,      \* disk when the previous run started
  run,            \* number of the current run; also its datetime.now()
  pc,             \* "start", "loop", "scanned", "exited"
  todo,           \* files the glob has still to yield
  items, errors, skipped_files,   \* scan_directory's lists
  ok_lines,       \* files of the success lines printed at line 130
  outcome         \* "running", "exit0", "exit1", "traceback"

vars == <<dirExists, disk, disk0, prevStart, run, pc, todo, items, errors,
          skipped_files, ok_lines, outcome>>

Init ==
  \E fa \in FilesFor(NameA) \cup {Absent},
     fb \in FilesFor(NameB) \cup {Absent},
     fc \in FilesFor(NameAA) \cup {Absent},
     idx \in SUBSET {INDEX},
     ex \in BOOLEAN :
    LET pick == [n \in WorkflowNames |->
                   IF n = NameA THEN fa ELSE IF n = NameB THEN fb ELSE fc]
        names == {n \in WorkflowNames : pick[n] # Absent}
    IN /\ dirExists = ex
       /\ disk = IF ex
                 THEN [n \in names \cup idx |->
                         IF n = INDEX THEN [perm |-> "rw", doc |-> Catalog(0, <<>>)]
                         ELSE pick[n]]
                 ELSE NoFiles
       /\ disk0 = disk
       /\ prevStart = disk
       /\ run = 1
       /\ pc = "start"
       /\ todo = {}
       /\ items = <<>>
       /\ errors = <<>>
       /\ skipped_files = <<>>
       /\ ok_lines = <<>>
       /\ outcome = "running"

\* scan_directory, lines 72-80: the directory does not exist
ScanMissingDir ==
  /\ pc = "start"
  /\ ~dirExists
  /\ items' = <<>>
  /\ errors' = <<>>
  /\ skipped_files' = <<>>
  /\ pc' = "scanned"
  /\ UNCHANGED <<dirExists, disk, disk0, prevStart, run, todo, ok_lines, outcome>>

\* scan_directory, lines 72-83: dir_path.glob('*.json')
ScanGlob ==
  /\ pc = "start"
  /\ dirExists
  /\ items' = <<>>
  /\ errors' = <<>>
  /\ skipped_files' = <<>>
  /\ todo' = {n \in DOMAIN disk : EndsWith(n, EXT)}
  /\ pc' = "loop"
  /\ UNCHANGED <<dirExists, disk, disk0, prevStart, run, ok_lines, outcome>>

\* lines 85-86: the glob yields index.json
SkipIndex ==
  /\ pc = "loop"
  /\ INDEX \in todo
  /\ todo' = todo \ {INDEX}
  /\ UNCHANGED <<dirExists, disk, disk0, prevStart, run, pc, items, errors,
                 skipped_files, ok_lines, outcome>>

\* lines 83-137: the glob yields the workflow file f, in any order
ProcessFile(f) ==
  /\ pc = "loop"
  /\ f \in todo
  /\ f # INDEX
  /\ LET st == [items |-> items, errors |-> errors,
                skipped_files |-> skipped_files, ok_lines |-> ok_lines]
         r == loop_body(st, f, disk[f])
     IN /\ items' = r.items
        /\ errors' = r.errors
        /\ skipped_files' = r.skipped_files
        /\ ok_lines' = r.ok_lines
        /\ disk' = [disk EXCEPT ![f] = r.file]
        /\ IF r.propagates
           THEN pc' = "exited" /\ outcome' = "traceback" /\ todo' = {}
           ELSE pc' = pc /\ outcome' = outcome /\ todo' = todo \ {f}
  /\ UNCHANGED <<dirExists, disk0, prevStart, run>>

\* line 139
ScanReturn ==
  /\ pc = "loop"
  /\ todo = {}
  /\ pc' = "scanned"
  /\ UNCHANGED <<dirExists, disk, disk0, prevStart, run, todo, items, errors,
                 skipped_files, ok_lines, outcome>>

\* lines 171-173: [raised, disk]
write_index(d, exists, index, entries) ==
  IF ~exists THEN [raised |-> TRUE, disk |-> d]
  ELSE LET put(doc) == [n \in DOMAIN d \cup {INDEX} |->
                          IF n = INDEX THEN [perm |-> "rw", doc |-> doc] ELSE d[n]]
       IN IF \E i \in 1..Len(entries) : ~EncodableItem(entries[i])
          THEN [raised |-> TRUE, disk |-> put(Malformed)]
          ELSE [raised |-> FALSE, disk |-> put(index)]

\* generate_index, lines 150-183
GenerateIndex ==
  /\ pc = "scanned"
  /\ pc' = "exited"
  /\ IF \E i \in 1..Len(errors) : ~PrintableError(errors[i])
     THEN \* line 154 raises UnicodeEncodeError
          /\ outcome' = "traceback"
          /\ UNCHANGED <<items, disk>>
     ELSE LET sorted == sort_items(items)
              index == Catalog(run, sorted)
              w == write_index(disk, dirExists, index, sorted)
          IN /\ items' = sorted
             /\ disk' = w.disk
             /\ outcome' = IF w.raised THEN "traceback"
                           ELSE IF errors # <<>> THEN "exit1" ELSE "exit0"
  /\ UNCHANGED <<dirExists, disk0, prevStart, run, todo, errors,
                 skipped_files, ok_lines>>

\* the tool is started again on the directory as the last run left it
Rerun ==
  /\ pc = "exited"
  /\ run < MaxRuns
  /\ run' = run + 1
  /\ prevStart' = disk0
  /\ disk0' = disk
  /\ pc' = "start"
  /\ todo' = {}
  /\ items' = <<>>
  /\ errors' = <<>>
  /\ skipped_files' = <<>>
  /\ ok_lines' = <<>>
  /\ outcome' = "running"
  /\ UNCHANGED <<dirExists, disk>>

Step ==
  \/ ScanMissingDir
  \/ ScanGlob
  \/ SkipIndex
  \/ \E f \in WorkflowNames : ProcessFile(f)
  \/ ScanReturn
  \/ GenerateIndex

Next == Step \/ Rerun

Spec == Init /\ [][Next]_vars

\* a started run is not suspended: the process executes statement after statement
FairSpec == Spec /\ WF_vars(Step)


\* ================================================================ claims
ItemFiles == {items[i].filename : i \in 1..Len(items)}
ErrorFiles == {errors[i].file : i \in 1..Len(errors)}
SourceFiles(d) == DOMAIN d \ {INDEX}
ScanOver == pc \in {"scanned", "exited"}

FlagsFalse(doc) ==
  /\ doc.t = "dict"
  /\ FLAGS \subseteq DOMAIN doc.v
  /\ \A k \in FLAGS : doc.v[k] = FALSE

\* the current run has finished the loop iteration for f
Processed(f) ==
  /\ dirExists
  /\ f \in SourceFiles(disk0)
  /\ \/ pc = "loop" /\ f \notin todo
     \/ ScanOver

\* f, as the run found it, is readable JSON that validate_workflow rejects
FailsValidation(f) ==
  /\ disk0[f].perm # "none"
  /\ disk0[f].doc.t # "malformed"
  /\ LET r == validate_workflow(disk0[f].doc, f) IN ~r.raised /\ ~r.valid

\* C1: after the scan, no file with an error record has a catalog entry, and
\* every entry belongs to a file that was validated and rewritten.
C1_ErroredFilesNotInCatalog ==
  ScanOver =>
    /\ ItemFiles \cap ErrorFiles = {}
    /\ ItemFiles \cap Range(skipped_files) = {}
    /\ ItemFiles \subseteq Range(ok_lines)

\* C2: with no scan directory the run ends with no entries, no errors and
\* no exception.
C2_MissingDirNoCrash ==
  (pc = "exited" /\ ~dirExists) =>
    /\ items = <<>>
    /\ errors = <<>>
    /\ outcome # "traceback"

\* C3: the id of every catalog entry is the file's name with only the
\* trailing ".json" removed.
C3_EntryIdIsStem ==
  \A i \in 1..Len(items) : items[i].id = StripExt(items[i].filename)

\* C4: every file the run validated and rewrote has the three runtime flags
\* present and false on disk.
C4_FlagsFalseOnDisk ==
  \A f \in Range(ok_lines) : FlagsFalse(disk[f].doc)

C4_Witness ==
  /\ pc = "exited"
  /\ \E f \in Range(ok_lines) :
       /\ disk0[f].doc.v["isEnabled"] = TRUE
       /\ "isFavorite" \notin DOMAIN disk0[f].doc.v

\* C5: a file that fails validation has no catalog entry, exactly one error
\* record, and the content it had when the run started.
C5_InvalidFileUntouched ==
  \A f \in SourceFiles(disk0) :
    (Processed(f) /\ FailsValidation(f)) =>
      /\ f \notin ItemFiles
      /\ Cardinality({i \in 1..Len(errors) : errors[i].file = f}) = 1
      /\ disk[f] = disk0[f]

C5_Witness ==
  /\ pc = "exited"
  /\ \E f \in SourceFiles(disk0), g \in SourceFiles(disk0) :
       /\ Processed(f) /\ FailsValidation(f)
       /\ disk0[f].doc.t = "dict" /\ "_meta" \notin DOMAIN disk0[f].doc.v
       /\ Processed(g) /\ FailsValidation(g)
       /\ \E i \in 1..Len(errors) :
            errors[i].file = g /\ errors[i].kind = "id_mismatch"

IsSortedById(w) ==
  \A i, j \in 1..Len(w) : i < j => ~StrLess(w[j].id, w[i].id)

\* C6: the workflows of a written catalog are in ascending order of id and
\* total_count is their number.
C6_CatalogSorted ==
  (INDEX \in DOMAIN disk /\ disk[INDEX].doc.t = "dict") =>
    LET c == disk[INDEX].doc.v IN
      /\ IsSortedById(c["workflows"])
      /\ c["total_count"] = Len(c["workflows"])

C6_Witness ==
  /\ pc = "exited"
  /\ outcome = "exit0"
  /\ ok_lines = <<NameB, NameA>>
  /\ disk[INDEX].doc.t = "dict"
  /\ LET w == disk[INDEX].doc.v["workflows"] IN
       /\ Len(w) = 2
       /\ w[1].id = <<"a">>
       /\ w[2].id = <<"b">>

\* C7: a run on an existing directory exits non-zero exactly when a file
\* failed, and has written index.json by then.
C7_ExitStatusAndIndex ==
  (pc = "exited" /\ dirExists) =>
    /\ (outcome # "exit0") <=> (errors # <<>>)
    /\ INDEX \in DOMAIN disk
    /\ disk[INDEX].doc = Catalog(run, items)

AllValidNormalized(d) ==
  \A f \in SourceFiles(d) :
    /\ d[f].doc.t = "dict"
    /\ validate_workflow(d[f].doc, f).valid
    /\ FlagsFalse(d[f].doc)

SameCatalog(x, y) ==
  /\ x.t = "dict" /\ y.t = "dict"
  /\ \A k \in {"version", "total_count", "workflows"} : x.v[k] = y.v[k]

\* C8: two runs on a set of valid, normalized files: the second leaves the
\* documents as they were and writes the first run's catalog again.
C8_RerunIdempotent ==
  (pc = "exited" /\ run >= 2 /\ dirExists /\ AllValidNormalized(prevStart)) =>
    /\ \A f \in SourceFiles(disk0) : disk[f] = disk0[f]
    /\ INDEX \in DOMAIN disk0
    /\ SameCatalog(disk0[INDEX].doc, disk[INDEX].doc)

\* C9: once the loop has started, the scan returns, and by then every
\* workflow file of the directory has a catalog entry or an error record.
C9_ScanCompletes ==
  (pc = "loop") ~>
    (pc = "scanned" /\ SourceFiles(disk) \subseteq ItemFiles \cup ErrorFiles)

C9_Witness ==
  /\ pc = "scanned"
  /\ ok_lines # <<>>
  /\ \E i, j \in 1..Len(errors) :
       /\ errors[i].kind = "JSONDecodeError"
       /\ errors[j].kind = "OSError"
       /\ errors[j].file \in ItemFiles

\* C10: a run creates and deletes no workflow file and changes nothing in
\* one but the three runtime flags.
C10_OnlyFlagsChange ==
  dirExists =>
    /\ SourceFiles(disk) = SourceFiles(disk0)
    /\ \A f \in SourceFiles(disk0) :
         \/ disk[f] = disk0[f]
         \/ /\ disk0[f].doc.t = "dict"
            /\ disk[f].doc.t = "dict"
            /\ disk[f].perm = disk0[f].perm
            /\ DOMAIN disk[f].doc.v = DOMAIN disk0[f].doc.v \cup FLAGS
            /\ \A k \in DOMAIN disk0[f].doc.v \ FLAGS :
                 disk[f].doc.v[k] = disk0[f].doc.v[k]

====
